---- MODULE Spec2Model ----
(***************************************************************************)
(* Process tracker (proc/tracker.go) and group aggregation                 *)
(* (proc/grouper.go) of process-exporter, as a state machine.              *)
(*                                                                         *)
(* One action per public operation: Tracker.Track, Tracker.Ignore,         *)
(* Tracker.Update and Grouper.Update.  A scan is the finite sequence of    *)
(* items the Procs iterator yields; each item may fail one of its reads.   *)
(***************************************************************************)
EXTENDS Integers, Sequences, FiniteSets, TLC

\* ---------------------------------------------------------------- bounds
MaxPid == 2
MaxSpawns == 3
MaxCount == 1
MaxCountIo == 2
MaxCycles == 3
MaxFaults == 1
CounterBits == 4

\* ------------------------------------------------------------ data model
\* uint64 arithmetic (Counts.ReadBytes, Counts.WriteBytes) wraps; the model
\* keeps the wrap at a width of CounterBits bits.
Modulus == 2 ^ CounterBits

U64(x) == x % Modulus

\* The "unavailable" reading of an I/O counter: -1, which in unsigned
\* arithmetic is the all-ones value.
Sentinel == Modulus - 1

Pids == 1 .. MaxPid

StartTimes == 1 .. MaxSpawns

ProcIdSet == [Pid : Pids, StartTime : StartTimes]

\* *TrackedProc(nil): the value Tracked holds for a blacklisted process.
Nil == [nil |-> TRUE]

\* ProcStatic: the immutable attributes of a process instance.  The process
\* table gives every instance one name for its whole life.
StaticOf(id) ==
    [Name |-> IF id.StartTime = 1 \/ (id.Pid = 2 /\ id.StartTime = 2) THEN "a"
              ELSE IF id.Pid = 1 THEN "b" ELSE "x",
     StartTime |-> id.StartTime]

\* The limit on open file descriptors of every process of the table.
FdLimit == 4

\* What a scan reads for a process that has not run, with its I/O counters
\* and its descriptors readable.
ZeroMetrics ==
    [CpuTime |-> 0, ReadBytes |-> 0, WriteBytes |-> 0,
     ResidentBytes |-> 1, VirtualBytes |-> 2, NumThreads |-> 1,
     Filedesc |-> [Open |-> 3, Limit |-> FdLimit]]

ZeroCounts == [Cpu |-> 0, ReadBytes |-> 0, WriteBytes |-> 0]

\* ProcIdInfo{ProcId, ProcStatic, ProcMetrics}
ProcIdInfo(id, m) == [ProcId |-> id, ProcStatic |-> StaticOf(id), ProcMetrics |-> m]

\* Go map operations.
Put(m, k, v) == [x \in (DOMAIN m) \cup {k} |-> IF x = k THEN v ELSE m[x]]

Del(m, k) == [x \in (DOMAIN m) \ {k} |-> m[x]]

EmptyMap == [x \in {} |-> 0]

\* ------------------------------------------------------------------ state
VARIABLES
    os,          \* the process table the scans read: pid -> latest instance
    Tracked,     \* Tracker.Tracked: map[ProcId]*TrackedProc
    ProcIds,     \* Tracker.ProcIds: map[int]ProcId
    groupAccum,  \* Grouper.groupAccum: map[string]Counts
    clock,       \* number of Update calls so far; time.Now() of the latest
    call,        \* the latest call: its operation, arguments and results
    hist         \* per tracked identity: the reading it was tracked with

vars == <<os, Tracked, ProcIds, groupAccum, clock, call, hist>>

NoCall == [op |-> "none", panic |-> FALSE]

\* NewTracker / NewGrouper
Init ==
    /\ os = [pid \in Pids |-> [StartTime |-> 0, alive |-> FALSE, ticks |-> 0, ioOk |-> TRUE]]
    /\ Tracked = EmptyMap
    /\ ProcIds = EmptyMap
    /\ groupAccum = EmptyMap
    /\ clock = 0
    /\ call = NoCall
    /\ hist = EmptyMap

\* ---------------------------------------------------------------- Tracker
\* tracker.go:62-65.  The new TrackedProc has the zero lastUpdate and the
\* zero accum.
TrackedProc(groupName, idinfo) ==
    [lastUpdate |-> 0,
     info |-> [ProcStatic |-> idinfo.ProcStatic, ProcMetrics |-> idinfo.ProcMetrics],
     accum |-> ZeroCounts,
     GroupName |-> groupName]

TrackOp(T, groupName, idinfo) == Put(T, idinfo.ProcId, TrackedProc(groupName, idinfo))

\* Blacklisting: the value in the Tracked map is set to nil.
IgnoreOp(T, id) == Put(T, id, Nil)

\* The reading itself taken for its change.
DeltaNoSubtract(cur, prev) == U64(cur)

\* tracker.go:91-92: the change of a uint64 counter since the last recorded
\* reading; the subtraction wraps.
Delta(cur, prev) == U64(cur - prev)

\* The latest reading accumulated but never recorded as the last one.
UpdateKnownKeepInfo(last, metrics, now) ==
    LET dcpu == metrics.CpuTime - last.info.ProcMetrics.CpuTime
        drbytes == Delta(metrics.ReadBytes, last.info.ProcMetrics.ReadBytes)
        dwbytes == Delta(metrics.WriteBytes, last.info.ProcMetrics.WriteBytes)
    IN [last EXCEPT !.lastUpdate = now,
                    !.accum = [Cpu |-> last.accum.Cpu + dcpu,
                               ReadBytes |-> U64(last.accum.ReadBytes + drbytes),
                               WriteBytes |-> U64(last.accum.WriteBytes + dwbytes)]]

\* tracker.go:89-103: a known, not blacklisted process.
UpdateKnown(last, metrics, now) ==
    LET dcpu == metrics.CpuTime - last.info.ProcMetrics.CpuTime
        drbytes == Delta(metrics.ReadBytes, last.info.ProcMetrics.ReadBytes)
        dwbytes == Delta(metrics.WriteBytes, last.info.ProcMetrics.WriteBytes)
        lastaccum == [Cpu |-> dcpu, ReadBytes |-> drbytes, WriteBytes |-> dwbytes]
        newaccum == [Cpu |-> last.accum.Cpu + lastaccum.Cpu,
                     ReadBytes |-> U64(last.accum.ReadBytes + lastaccum.ReadBytes),
                     WriteBytes |-> U64(last.accum.WriteBytes + lastaccum.WriteBytes)]
    IN [last EXCEPT !.info.ProcMetrics = metrics,
                    !.lastUpdate = now,
                    !.accum = newaccum]

\* Discovery that also begins tracking the process, under no group name.
DiscoverAndTrack(st, item) ==
    LET procId == item.ProcId
        idinfo == ProcIdInfo(procId, item.ProcMetrics)
    IN [Tracked |-> TrackOp(IF procId.Pid \in DOMAIN st.ProcIds
                            THEN Del(st.Tracked, st.ProcIds[procId.Pid])
                            ELSE st.Tracked, "", idinfo),
        ProcIds |-> Put(st.ProcIds, procId.Pid, procId),
        newProcs |-> Append(st.newProcs, idinfo)]

\* Discovery that leaves the pid's old identity in the tracked set.
DiscoverNoEvict(st, item) ==
    LET procId == item.ProcId
    IN [Tracked |-> st.Tracked,
        ProcIds |-> Put(st.ProcIds, procId.Pid, procId),
        newProcs |-> Append(st.newProcs, ProcIdInfo(procId, item.ProcMetrics))]

\* tracker.go:104-118: a process the tracker does not know.
Discover(st, item) ==
    LET procId == item.ProcId
    IN [Tracked |-> IF procId.Pid \in DOMAIN st.ProcIds
                    THEN Del(st.Tracked, st.ProcIds[procId.Pid])
                    ELSE st.Tracked,
        ProcIds |-> Put(st.ProcIds, procId.Pid, procId),
        newProcs |-> Append(st.newProcs, ProcIdInfo(procId, item.ProcMetrics))]

\* tracker.go:70-120: the body of the scan loop for one item of the iterator.
\* item.fail names the read that fails for it, if any.
ScanItem(st, item, now) ==
    IF item.fail = "id" THEN st
    ELSE LET procId == item.ProcId
             known == procId \in DOMAIN st.Tracked
         IN IF known /\ st.Tracked[procId] = Nil THEN st
            ELSE IF item.fail = "metrics" THEN st
            ELSE IF known
                 THEN [st EXCEPT !.Tracked[procId] =
                                    UpdateKnown(st.Tracked[procId], item.ProcMetrics, now)]
            ELSE IF item.fail = "static" THEN st
            ELSE Discover(st, item)

\* The loop left at the first read that fails.
RECURSIVE ScanLoopBreak(_, _, _, _)
ScanLoopBreak(st, procs, i, now) ==
    IF i > Len(procs) \/ procs[i].fail # "none" THEN st
    ELSE ScanLoopBreak(ScanItem(st, procs[i], now), procs, i + 1, now)

\* tracker.go:70: for procs.Next() { ... }
RECURSIVE ScanLoop(_, _, _, _)
ScanLoop(st, procs, i, now) ==
    IF i > Len(procs) THEN st
    ELSE ScanLoop(ScanItem(st, procs[i], now), procs, i + 1, now)

\* tracker.go:127: the entries the sweep deletes when it reaches them.
Stale(T, now) == { id \in DOMAIN T : T[id] # Nil /\ T[id].lastUpdate # now }

HasNil(T) == \E id \in DOMAIN T : T[id] = Nil

Swept(st, D) ==
    [Tracked |-> [id \in (DOMAIN st.Tracked) \ D |-> st.Tracked[id]],
     ProcIds |-> [p \in (DOMAIN st.ProcIds) \ { id.Pid : id \in D } |-> st.ProcIds[p]]]

\* tracker.go:126-131.  The range visits the map in an unspecified order.
\* pinfo.lastUpdate on a nil pinfo is a nil pointer dereference: the call
\* panics at the first blacklisted entry the range reaches, having deleted
\* the stale entries it reached before.
SweepOutcomes(st, now) ==
    IF HasNil(st.Tracked)
    THEN { [panic |-> TRUE, after |-> Swept(st, D)] : D \in SUBSET Stale(st.Tracked, now) }
    ELSE { [panic |-> FALSE, after |-> Swept(st, Stale(st.Tracked, now))] }

\* The error of Close dropped: the sweep runs and the call returns its list.
UpdateOutcomesIgnoreClose(T, P, procs, closeErr, now) ==
    LET st == ScanLoop([Tracked |-> T, ProcIds |-> P, newProcs |-> <<>>], procs, 1, now)
    IN { [Tracked |-> out.after.Tracked, ProcIds |-> out.after.ProcIds,
          panic |-> out.panic, err |-> FALSE,
          newProcs |-> IF out.panic THEN <<>> ELSE st.newProcs] :
         out \in SweepOutcomes(st, now) }

\* tracker.go:67-134: what a call of Update can end in.  newProcs is nil on
\* an error; a call that panics returns nothing.
UpdateOutcomes(T, P, procs, closeErr, now) ==
    LET st == ScanLoop([Tracked |-> T, ProcIds |-> P, newProcs |-> <<>>], procs, 1, now)
    IN IF closeErr
       THEN { [Tracked |-> st.Tracked, ProcIds |-> st.ProcIds, panic |-> FALSE,
               err |-> TRUE, newProcs |-> <<>>] }
       ELSE { [Tracked |-> out.after.Tracked, ProcIds |-> out.after.ProcIds,
               panic |-> out.panic, err |-> FALSE,
               newProcs |-> IF out.panic THEN <<>> ELSE st.newProcs] :
              out \in SweepOutcomes(st, now) }

\* ------------------------------------------------------ the process table
\* What a scan reads for a live process.  ticks counts how far it has run:
\* one tick is one unit of CPU time, one byte read and two bytes written.
\* /proc/<pid>/io is readable as a whole or not at all, so the two I/O
\* counters are unavailable together.
\* Memory is an instantaneous reading that grows as the process runs; the
\* count of open descriptors is -1 when the scanner may not read it, which
\* takes the same permission as the I/O counters.
Reading(p) ==
    [CpuTime |-> p.ticks,
     ReadBytes |-> IF p.ioOk THEN p.ticks ELSE Sentinel,
     WriteBytes |-> IF p.ioOk THEN 2 * p.ticks ELSE Sentinel,
     ResidentBytes |-> 1 + p.ticks,
     VirtualBytes |-> 2 + p.ticks,
     NumThreads |-> 1 + p.ticks,
     Filedesc |-> [Open |-> IF p.ioOk THEN 3 + p.ticks ELSE -1, Limit |-> FdLimit]]

IdOf(pid) == [Pid |-> pid, StartTime |-> os[pid].StartTime]

\* The program has panicked: nothing recovers, it is gone.
Alive == ~call.panic

\* Between two calls the latest call's results are no longer at hand.
Forget == call' = [op |-> "none", panic |-> FALSE]

RECURSIVE SumStarts(_)
SumStarts(pids) ==
    IF pids = {} THEN 0
    ELSE LET pid == CHOOSE x \in pids : TRUE
         IN os[pid].StartTime + SumStarts(pids \ {pid})

\* How many processes have been started so far.
Spawned == SumStarts(Pids)

\* A new process takes a free pid and a later start time than the pid's last
\* owner; oks says whether the scanner may read its I/O counters.
SpawnOf(pids, oks) ==
    /\ Alive
    /\ Spawned < MaxSpawns
    /\ \E pid \in pids, ok \in oks :
         /\ ~os[pid].alive
         /\ os' = [os EXCEPT ![pid] = [StartTime |-> os[pid].StartTime + 1, alive |-> TRUE,
                                       ticks |-> 0, ioOk |-> ok]]
    /\ Forget
    /\ UNCHANGED <<Tracked, ProcIds, groupAccum, clock, hist>>

Exit ==
    /\ Alive
    /\ \E pid \in Pids :
         /\ os[pid].alive
         /\ os' = [os EXCEPT ![pid] = [StartTime |-> os[pid].StartTime, alive |-> FALSE,
                                       ticks |-> 0, ioOk |-> TRUE]]
    /\ Forget
    /\ UNCHANGED <<Tracked, ProcIds, groupAccum, clock, hist>>

\* A live process runs: its cumulative counters grow, up to max ticks.
RunTo(max) ==
    /\ Alive
    /\ \E pid \in Pids :
         /\ os[pid].alive
         /\ os[pid].ticks < max
         /\ os' = [os EXCEPT ![pid].ticks = @ + 1]
    /\ Forget
    /\ UNCHANGED <<Tracked, ProcIds, groupAccum, clock, hist>>

\* The scanner gains or loses the permission to read a process's I/O counters.
Perm ==
    /\ Alive
    /\ \E pid \in Pids :
         /\ os[pid].alive
         /\ os' = [os EXCEPT ![pid].ioOk = ~@]
    /\ Forget
    /\ UNCHANGED <<Tracked, ProcIds, groupAccum, clock, hist>>

\* -------------------------------------------------------------- the scans
FailKinds == {"none", "id", "metrics", "static"}

\* What the iterator yields for pid.  fail names the read that fails:
\* GetProcId ("id"), GetMetrics ("metrics"), GetStatic ("static").
Item(pid, f) == [ProcId |-> IdOf(pid), ProcMetrics |-> Reading(os[pid]), fail |-> f]

LivePids == { pid \in Pids : os[pid].alive }

RECURSIVE ScanOf(_, _)
\* The scan of the process table: one item per live pid, in pid order; fails
\* gives each item's failing read.
ScanOf(pids, fails) ==
    IF pids = {} THEN <<>>
    ELSE LET pid == CHOOSE x \in pids : \A y \in pids : x <= y
         IN <<Item(pid, fails[pid])>> \o ScanOf(pids \ {pid}, fails)

Failing(procs) == { i \in 1 .. Len(procs) : procs[i].fail # "none" }

Scans == { ScanOf(LivePids, fails) : fails \in [LivePids -> FailKinds] }

\* The faults of one cycle: the reads that fail and the failure of Close.
Faults(procs, closeErr) == Cardinality(Failing(procs)) + IF closeErr THEN 1 ELSE 0

\* ---------------------------------------------------------------- history
\* hist remembers, for every tracked process, the reading it was tracked
\* with.
HistAfterUpdate(h, T2) ==
    [id \in { x \in DOMAIN h : x \in DOMAIN T2 /\ T2[x] # Nil } |-> h[id]]

\* ------------------------------------------------- the group name matcher
\* The external classifier: a group name, or "" for a process to ignore.
Namer(static) ==
    IF static.Name = "a" THEN "g1" ELSE IF static.Name = "b" THEN "g2" ELSE ""

\* ---------------------------------------------------------------- actions
TrackNames == {"g1"}

\* Tracker.Track(groupName, idinfo), called with an observation of a live
\* process.
Track ==
    /\ Alive
    /\ \E pid \in LivePids, g \in TrackNames :
         LET idinfo == ProcIdInfo(IdOf(pid), Reading(os[pid]))
         IN /\ Tracked' = TrackOp(Tracked, g, idinfo)
            /\ hist' = Put(hist, idinfo.ProcId, idinfo.ProcMetrics)
            /\ call' = [op |-> "Track", panic |-> FALSE, id |-> idinfo.ProcId]
    /\ UNCHANGED <<os, ProcIds, groupAccum, clock>>

\* Tracker.Ignore(id), called with the identity of a live process.
Ignore ==
    /\ Alive
    /\ \E pid \in LivePids :
         /\ Tracked' = IgnoreOp(Tracked, IdOf(pid))
         /\ hist' = Del(hist, IdOf(pid))
         /\ call' = [op |-> "Ignore", panic |-> FALSE, id |-> IdOf(pid)]
    /\ UNCHANGED <<os, ProcIds, groupAccum, clock>>

\* Tracker.Update(procs): tracker.go:67-134.
TrackerUpdate ==
    /\ Alive
    /\ clock < MaxCycles
    /\ clock' = clock + 1
    /\ \E procs \in Scans, closeErr \in BOOLEAN :
         /\ Faults(procs, closeErr) <= MaxFaults
         /\ \E r \in UpdateOutcomes(Tracked, ProcIds, procs, closeErr, clock + 1) :
              /\ Tracked' = r.Tracked
              /\ ProcIds' = r.ProcIds
              /\ hist' = HistAfterUpdate(hist, r.Tracked)
              /\ call' = [op |-> "Update", panic |-> r.panic, procs |-> procs,
                          closeErr |-> closeErr, err |-> r.err, newProcs |-> r.newProcs]
    /\ UNCHANGED <<os, groupAccum>>

\* ---------------------------------------------------------------- Grouper
\* Counts.Add: the field-wise sum; the byte counters are uint64.
CountsAdd(c, o) ==
    [Cpu |-> c.Cpu + o.Cpu,
     ReadBytes |-> U64(c.ReadBytes + o.ReadBytes),
     WriteBytes |-> U64(c.WriteBytes + o.WriteBytes)]

\* The zero Group: what groups[name] reads for a name the map does not hold.
\* WorstFDratio is kept as the fraction Open / Limit.
ZeroGroup ==
    [Counts |-> ZeroCounts, Procs |-> 0,
     Memory |-> [ResidentBytes |-> 0, VirtualBytes |-> 0],
     OldestStartTime |-> 0, OpenFDs |-> 0,
     WorstFDratio |-> [Open |-> 0, Limit |-> 1], NumThreads |-> 0]

\* The open-descriptor count added also when it is the unreadable marker -1.
groupaddAnyFds(grp, ts) ==
    [Counts |-> CountsAdd(grp.Counts, ts.Latest),
     Procs |-> grp.Procs + 1,
     Memory |-> [ResidentBytes |-> grp.Memory.ResidentBytes + ts.Memory.ResidentBytes,
                 VirtualBytes |-> grp.Memory.VirtualBytes + ts.Memory.VirtualBytes],
     OldestStartTime |-> IF grp.OldestStartTime = 0 \/ ts.Start < grp.OldestStartTime
                         THEN ts.Start ELSE grp.OldestStartTime,
     OpenFDs |-> grp.OpenFDs + ts.Filedesc.Open,
     WorstFDratio |-> IF grp.WorstFDratio.Open * ts.Filedesc.Limit
                         < ts.Filedesc.Open * grp.WorstFDratio.Limit
                      THEN ts.Filedesc ELSE grp.WorstFDratio,
     NumThreads |-> grp.NumThreads + ts.NumThreads]

\* grouper.go:43-63.  The zero time.Time is 0; start times begin at 1.
groupadd(grp, ts) ==
    [Counts |-> CountsAdd(grp.Counts, ts.Latest),
     Procs |-> grp.Procs + 1,
     Memory |-> [ResidentBytes |-> grp.Memory.ResidentBytes + ts.Memory.ResidentBytes,
                 VirtualBytes |-> grp.Memory.VirtualBytes + ts.Memory.VirtualBytes],
     OldestStartTime |-> IF grp.OldestStartTime = 0 \/ ts.Start < grp.OldestStartTime
                         THEN ts.Start ELSE grp.OldestStartTime,
     OpenFDs |-> IF ts.Filedesc.Open # -1
                 THEN grp.OpenFDs + ts.Filedesc.Open ELSE grp.OpenFDs,
     WorstFDratio |-> IF grp.WorstFDratio.Open * ts.Filedesc.Limit
                         < ts.Filedesc.Open * grp.WorstFDratio.Limit
                      THEN ts.Filedesc ELSE grp.WorstFDratio,
     NumThreads |-> grp.NumThreads + ts.NumThreads]

\* What the tracker hands the grouper for one tracked process: its group
\* name, its own cumulative accumulator and its latest recorded snapshot.
UpdateOf(tp) ==
    [GroupName |-> tp.GroupName,
     Latest |-> tp.accum,
     Memory |-> [ResidentBytes |-> tp.info.ProcMetrics.ResidentBytes,
                 VirtualBytes |-> tp.info.ProcMetrics.VirtualBytes],
     Filedesc |-> tp.info.ProcMetrics.Filedesc,
     Start |-> tp.info.ProcStatic.StartTime,
     NumThreads |-> tp.info.ProcMetrics.NumThreads]

\* Each newly discovered process is given to the classifier, then tracked
\* under the name it returns or ignored.
RECURSIVE Classify(_, _, _)
Classify(T, newProcs, i) ==
    IF i > Len(newProcs) THEN T
    ELSE LET idinfo == newProcs[i]
             gname == Namer(idinfo.ProcStatic)
         IN Classify(IF gname # "" THEN TrackOp(T, gname, idinfo)
                     ELSE IgnoreOp(T, idinfo.ProcId),
                     newProcs, i + 1)

\* The identities the tracker reports on: every tracked, not blacklisted one.
Reported(T) == { id \in DOMAIN T : T[id] # Nil }

\* grouper.go:75-77
RECURSIVE FoldTracked(_, _, _)
FoldTracked(groups, T, ids) ==
    IF ids = {} THEN groups
    ELSE LET id == CHOOSE x \in ids : TRUE
             update == UpdateOf(T[id])
             grp == IF update.GroupName \in DOMAIN groups
                    THEN groups[update.GroupName] ELSE ZeroGroup
         IN FoldTracked(Put(groups, update.GroupName, groupadd(grp, update)),
                        T, ids \ {id})

\* grouper.go:81-87, the groups map after the loop.
WithAccum(groups, accum) ==
    [gname \in DOMAIN groups |->
        IF gname \in DOMAIN accum
        THEN [groups[gname] EXCEPT !.Counts = CountsAdd(@, accum[gname])]
        ELSE groups[gname]]

\* The accumulators rebuilt from the groups that have members now.
AccumAfterLiveOnly(groups, accum) ==
    [gname \in DOMAIN groups |-> groups[gname].Counts]

\* grouper.go:86, groupAccum after the loop.
AccumAfter(groups, accum) ==
    [gname \in (DOMAIN accum) \cup (DOMAIN groups) |->
        IF gname \in DOMAIN groups THEN groups[gname].Counts ELSE accum[gname]]

\* A past group returned with the zero counters.
WithPastZeroed(groups, accum) ==
    [gname \in (DOMAIN accum) \cup (DOMAIN groups) |->
        IF gname \in DOMAIN groups THEN groups[gname] ELSE ZeroGroup]

\* grouper.go:90-94
WithPast(groups, accum) ==
    [gname \in (DOMAIN accum) \cup (DOMAIN groups) |->
        IF gname \in DOMAIN groups THEN groups[gname]
        ELSE [ZeroGroup EXCEPT !.Counts = accum[gname]]]

\* grouper.go:68-97, given what the tracker's Update ended in.  A call that
\* fails or panics returns no groups and touches no accumulator.
GrouperOutcome(r, accum) ==
    IF r.err \/ r.panic
    THEN [Tracked |-> r.Tracked, groupAccum |-> accum, groups |-> Nil]
    ELSE LET T2 == Classify(r.Tracked, r.newProcs, 1)
             groups == WithAccum(FoldTracked(EmptyMap, T2, Reported(T2)), accum)
             accum2 == AccumAfter(groups, accum)
         IN [Tracked |-> T2, groupAccum |-> accum2, groups |-> WithPast(groups, accum2)]

\* hist after the classification of the new processes.
RECURSIVE HistAfterClassify(_, _, _)
HistAfterClassify(h, newProcs, i) ==
    IF i > Len(newProcs) THEN h
    ELSE LET idinfo == newProcs[i]
         IN HistAfterClassify(IF Namer(idinfo.ProcStatic) # ""
                              THEN Put(h, idinfo.ProcId, idinfo.ProcMetrics)
                              ELSE Del(h, idinfo.ProcId),
                              newProcs, i + 1)

\* Grouper.Update(iter): grouper.go:68-97.
GrouperUpdate ==
    /\ Alive
    /\ clock < MaxCycles
    /\ clock' = clock + 1
    /\ \E procs \in Scans, closeErr \in BOOLEAN :
         /\ Faults(procs, closeErr) <= MaxFaults
         /\ \E r \in UpdateOutcomes(Tracked, ProcIds, procs, closeErr, clock + 1) :
              LET o == GrouperOutcome(r, groupAccum)
              IN /\ Tracked' = o.Tracked
                 /\ ProcIds' = r.ProcIds
                 /\ groupAccum' = o.groupAccum
                 /\ hist' = IF r.err \/ r.panic
                            THEN HistAfterUpdate(hist, r.Tracked)
                            ELSE HistAfterClassify(HistAfterUpdate(hist, r.Tracked),
                                                   r.newProcs, 1)
                 /\ call' = [op |-> "GrouperUpdate", panic |-> r.panic, procs |-> procs,
                             closeErr |-> closeErr, err |-> r.err,
                             newProcs |-> r.newProcs, groups |-> o.groups]
    /\ UNCHANGED os

\* The tracker on its own, called by a program that reads the process table
\* itself; every process's I/O counters are readable.
Spawn == SpawnOf(Pids, {TRUE})

Run == RunTo(MaxCount)

Next == Spawn \/ Exit \/ Run \/ Track \/ Ignore \/ TrackerUpdate

Spec == Init /\ [][Next]_vars

\* The tracker on its own, following the one process that owns pid 1, whose
\* I/O counters the scanner may or may not be allowed to read.
SpawnIo == SpawnOf({1}, BOOLEAN)

RunIo == RunTo(MaxCountIo)

NextIo == SpawnIo \/ Exit \/ RunIo \/ Perm \/ Track \/ Ignore \/ TrackerUpdate

SpecIo == Init /\ [][NextIo]_vars

\* The sequence s without its i-th element.
Without(s, i) == SubSeq(s, 1, i - 1) \o SubSeq(s, i + 1, Len(s))

\* The caller works through the list the latest Update returned:
\* Tracker.Track(groupName, idinfo) with one of its observations.
TrackNew ==
    /\ Alive
    /\ call.op = "Update"
    /\ \E i \in 1 .. Len(call.newProcs), g \in TrackNames :
         LET idinfo == call.newProcs[i]
         IN /\ Tracked' = TrackOp(Tracked, g, idinfo)
            /\ hist' = Put(hist, idinfo.ProcId, idinfo.ProcMetrics)
            /\ call' = [call EXCEPT !.newProcs = Without(call.newProcs, i)]
    /\ UNCHANGED <<os, ProcIds, groupAccum, clock>>

\* Tracker.Ignore(id) with the identity of one of the observations the
\* latest Update returned.
IgnoreNew ==
    /\ Alive
    /\ call.op = "Update"
    /\ \E i \in 1 .. Len(call.newProcs) :
         /\ Tracked' = IgnoreOp(Tracked, call.newProcs[i].ProcId)
         /\ hist' = Del(hist, call.newProcs[i].ProcId)
         /\ call' = [call EXCEPT !.newProcs = Without(call.newProcs, i)]
    /\ UNCHANGED <<os, ProcIds, groupAccum, clock>>

\* The tracker driven by a caller that tracks or ignores only what the
\* latest Update has just reported as new.
NextNew == Spawn \/ Exit \/ Run \/ TrackNew \/ IgnoreNew \/ TrackerUpdate

SpecNew == Init /\ [][NextNew]_vars

\* The grouper over its tracker: the exporter calls Grouper.Update once per
\* cycle and nothing else.
SpawnAny == SpawnOf(Pids, BOOLEAN)

GNext == SpawnAny \/ Exit \/ Run \/ Perm \/ GrouperUpdate

GSpec == Init /\ [][GNext]_vars

\* ----------------------------------------------------------------- claims
\* The identities of the observations a scan holds.
ScannedIds(procs) == { procs[i].ProcId : i \in 1 .. Len(procs) }

\* The identities a call reported as new.
NewIds(c) == { c.newProcs[i].ProcId : i \in 1 .. Len(c.newProcs) }

\* The observations of procs read in full whose identity T does not hold,
\* tracked or blacklisted, in scan order.
RECURSIVE NewIn(_, _, _)
NewIn(T, procs, i) ==
    IF i > Len(procs) THEN <<>>
    ELSE (IF procs[i].fail = "none" /\ procs[i].ProcId \notin DOMAIN T
          THEN <<ProcIdInfo(procs[i].ProcId, procs[i].ProcMetrics)>>
          ELSE <<>>) \o NewIn(T, procs, i + 1)

\* C1: a call of Tracker.Update whose iterator closes reports as new exactly
\* the observations read in full whose identity was neither tracked nor
\* blacklisted when scanned, in particular when the tracker holds a
\* blacklisted identity.
C1_ReportsExactlyUnknown ==
    [][ (call'.op = "Update" /\ ~call'.closeErr)
        => /\ ~call'.panic
           /\ call'.newProcs = NewIn(Tracked, call'.procs, 1) ]_vars

\* C2: once an identity is blacklisted, every call of Tracker.Update whose
\* scan holds it completes normally, does not report it as new and leaves it
\* blacklisted, with nothing accumulated for it.
C2_IgnoredStaysIgnored ==
    [][ \A id \in DOMAIN Tracked :
          (call'.op = "Update" /\ Tracked[id] = Nil /\ id \in ScannedIds(call'.procs))
          => /\ ~call'.panic
             /\ id \notin NewIds(call')
             /\ id \in DOMAIN Tracked'
             /\ Tracked'[id] = Nil ]_vars

\* C3: for every tracked process, the accumulated CPU time is the latest
\* recorded reading minus the reading it was tracked with, and so are the
\* accumulated read and write bytes when both readings are available; after a
\* call of Update the recorded reading of every tracked process whose metrics
\* the scan read is that reading.
C3_AccumIsLatestMinusBase ==
    /\ \A id \in DOMAIN hist :
         LET tp == Tracked[id]
             base == hist[id]
             latest == tp.info.ProcMetrics
         IN /\ tp.accum.Cpu = latest.CpuTime - base.CpuTime
            /\ (base.ReadBytes # Sentinel /\ latest.ReadBytes # Sentinel)
               => tp.accum.ReadBytes = latest.ReadBytes - base.ReadBytes
            /\ (base.WriteBytes # Sentinel /\ latest.WriteBytes # Sentinel)
               => tp.accum.WriteBytes = latest.WriteBytes - base.WriteBytes
    /\ call.op = "Update"
       => \A i \in 1 .. Len(call.procs) :
            LET item == call.procs[i]
            IN (item.fail \in {"none", "static"} /\ item.ProcId \in Reported(Tracked))
               => Tracked[item.ProcId].info.ProcMetrics = item.ProcMetrics

\* A process tracked at zero, then updated in the latest of at least two
\* cycles, having run twice since.
C3_Witness ==
    /\ call.op = "Update"
    /\ clock >= 2
    /\ \E id \in DOMAIN hist :
         /\ hist[id] = ZeroMetrics
         /\ Tracked[id].lastUpdate = clock
         /\ Tracked[id].accum = [Cpu |-> 2, ReadBytes |-> 2, WriteBytes |-> 4]

\* C4: a tracked process whose read and write bytes were unavailable when it
\* was tracked and are unavailable in the latest recorded reading has
\* accumulated no read and no write bytes.
C4_UnavailableAccumulatesZero ==
    \A id \in DOMAIN hist :
        LET tp == Tracked[id]
            base == hist[id]
            latest == tp.info.ProcMetrics
        IN /\ (base.ReadBytes = Sentinel /\ latest.ReadBytes = Sentinel)
              => tp.accum.ReadBytes = 0
           /\ (base.WriteBytes = Sentinel /\ latest.WriteBytes = Sentinel)
              => tp.accum.WriteBytes = 0

\* A process tracked with its I/O counters unavailable, updated in the third
\* cycle with them still unavailable, having run meanwhile.
C4_Witness ==
    /\ call.op = "Update"
    /\ clock = 3
    /\ \E id \in DOMAIN hist :
         /\ hist[id].ReadBytes = Sentinel
         /\ hist[id].WriteBytes = Sentinel
         /\ Tracked[id].lastUpdate = clock
         /\ Tracked[id].info.ProcMetrics.ReadBytes = Sentinel
         /\ Tracked[id].accum.Cpu > 0
         /\ Tracked[id].accum.ReadBytes = 0

\* C5: when a scan whose call returns holds a new identity on the pid of a
\* tracked identity, the call evicts the tracked one, leaves the pid index
\* mapping the pid to the new one, and reports the new one as new.
C5_PidReuseEvicts ==
    [][ (call'.op = "Update" /\ ~call'.closeErr /\ ~call'.panic)
        => \A old \in Reported(Tracked) : \A i \in 1 .. Len(call'.procs) :
             LET item == call'.procs[i]
             IN (/\ item.fail = "none"
                 /\ item.ProcId.Pid = old.Pid
                 /\ item.ProcId # old
                 /\ item.ProcId \notin DOMAIN Tracked)
                => /\ old \notin DOMAIN Tracked'
                   /\ old.Pid \in DOMAIN ProcIds'
                   /\ ProcIds'[old.Pid] = item.ProcId
                   /\ item.ProcId \in NewIds(call') ]_vars

\* C6: a tracked, not blacklisted process that the scan of a call of Update
\* does not hold is, once the iterator has closed, neither in the tracked set
\* nor in the pid index.
C6_AbsentIsReaped ==
    [][ (call'.op = "Update" /\ ~call'.closeErr)
        => \A id \in Reported(Tracked) :
             id \notin ScannedIds(call'.procs)
             => /\ id \notin DOMAIN Tracked'
                /\ id.Pid \in DOMAIN ProcIds' => ProcIds'[id.Pid] # id ]_vars

\* An observation's read fails in effect when the loop attempts it: GetProcId
\* always, GetMetrics unless the process is blacklisted, GetStatic only for a
\* process the tracker does not know.
FailsInEffect(T, item) ==
    \/ item.fail = "id"
    \/ item.fail = "metrics" /\ ~(item.ProcId \in DOMAIN T /\ T[item.ProcId] = Nil)
    \/ item.fail = "static" /\ item.ProcId \notin DOMAIN T

\* The scan without the observations whose read fails.
RECURSIVE Readable(_, _, _)
Readable(T, procs, i) ==
    IF i > Len(procs) THEN <<>>
    ELSE (IF FailsInEffect(T, procs[i]) THEN <<>> ELSE <<procs[i]>>)
         \o Readable(T, procs, i + 1)

\* C10: a call of Update returns an error only when Close fails, and what it
\* does to the tracker and what it returns are what it would do and return
\* on the same scan without the observations whose read failed.
C10_ReadFailureNotFatal ==
    [][ call'.op = "Update"
        => /\ call'.err <=> call'.closeErr
           /\ [Tracked |-> Tracked', ProcIds |-> ProcIds', panic |-> call'.panic,
               err |-> call'.err, newProcs |-> call'.newProcs]
              \in UpdateOutcomes(Tracked, ProcIds, Readable(Tracked, call'.procs, 1),
                                 call'.closeErr, clock') ]_vars

\* A call that returned a new process scanned after an observation whose
\* identity could not be read.
C10_Witness ==
    /\ call.op = "Update"
    /\ ~call.err
    /\ ~call.panic
    /\ Len(call.procs) = 2
    /\ call.procs[1].fail = "id"
    /\ NewIds(call) = {call.procs[2].ProcId}

\* c is at most d in each of the three counters.
CountsLeq(c, d) ==
    /\ c.Cpu <= d.Cpu
    /\ c.ReadBytes <= d.ReadBytes
    /\ c.WriteBytes <= d.WriteBytes

\* C7: every group the grouper has returned counters for is in the groups of
\* every later successful call of Grouper.Update, with no counter lower than
\* in the successful call before; groupAccum holds what that call returned.
C7_GroupCountersNonDecreasing ==
    [][ (call'.op = "GrouperUpdate" /\ ~call'.err /\ ~call'.panic)
        => \A gname \in DOMAIN groupAccum :
             /\ gname \in DOMAIN call'.groups
             /\ CountsLeq(groupAccum[gname], call'.groups[gname].Counts) ]_vars

\* The tracked, not blacklisted members of a group.
Members(T, gname) == { id \in Reported(T) : T[id].GroupName = gname }

\* The sum of the accumulators of the processes ids.
RECURSIVE SumAccum(_, _)
SumAccum(T, ids) ==
    IF ids = {} THEN ZeroCounts
    ELSE LET id == CHOOSE x \in ids : TRUE
         IN CountsAdd(T[id].accum, SumAccum(T, ids \ {id}))

\* The I/O counters of the processes ids were available when they were
\* tracked and are available in their recorded readings.
AllAvailable(T, ids) ==
    \A id \in ids :
        /\ hist[id].ReadBytes # Sentinel
        /\ hist[id].WriteBytes # Sentinel
        /\ T[id].info.ProcMetrics.ReadBytes # Sentinel
        /\ T[id].info.ProcMetrics.WriteBytes # Sentinel

\* C8: when a successful call of Grouper.Update leaves the members of a group
\* as they were, with their I/O counters available, the counters it returns
\* for the group are those of the successful call before plus what the
\* members' accumulators grew by in this call.
C8_NoDoubleCounting ==
    [][ (call'.op = "GrouperUpdate" /\ ~call'.err /\ ~call'.panic)
        => \A gname \in DOMAIN groupAccum :
             LET ids == Members(Tracked, gname)
             IN (/\ ids # {}
                 /\ ids = Members(Tracked', gname)
                 /\ AllAvailable(Tracked, ids)
                 /\ AllAvailable(Tracked', ids))
                => CountsAdd(call'.groups[gname].Counts, SumAccum(Tracked, ids))
                   = CountsAdd(groupAccum[gname], SumAccum(Tracked', ids)) ]_vars

\* C9: a call of Grouper.Update whose iterator fails to close returns the
\* tracker's error, without panicking, with no list of new processes and no
\* groups, and leaves groupAccum as it was.
C9_CloseFailureIsFatal ==
    [][ (call'.op = "GrouperUpdate" /\ call'.closeErr)
        => /\ call'.err
           /\ ~call'.panic
           /\ call'.newProcs = <<>>
           /\ call'.groups = Nil
           /\ groupAccum' = groupAccum ]_vars

\* Close failed in a call whose scan held a process the tracker does not
\* know and a tracked one, with counts retained for a group.
C9_Witness ==
    /\ call.op = "GrouperUpdate"
    /\ call.closeErr
    /\ DOMAIN groupAccum # {}
    /\ \E i, j \in 1 .. Len(call.procs) :
         /\ call.procs[i].fail = "none"
         /\ call.procs[i].ProcId \notin DOMAIN Tracked
         /\ call.procs[j].ProcId \in Reported(Tracked)

\* A call of Grouper.Update that returned its groups.
Succeeded(c) == c.op = "GrouperUpdate" /\ ~c.err /\ ~c.panic

\* C11: a successful call of Grouper.Update returns every group that has a
\* retained accumulator and no tracked member with that accumulator as its
\* counters and with no member, no memory, no open descriptor and no thread.
C11_PastGroupIsItsAccumulator ==
    [][ Succeeded(call')
        => \A gname \in DOMAIN groupAccum :
             Members(Tracked', gname) = {}
             => /\ gname \in DOMAIN call'.groups
                /\ call'.groups[gname].Counts = groupAccum[gname]
                /\ call'.groups[gname].Procs = 0
                /\ call'.groups[gname].Memory = [ResidentBytes |-> 0, VirtualBytes |-> 0]
                /\ call'.groups[gname].OpenFDs = 0
                /\ call'.groups[gname].NumThreads = 0 ]_vars

\* A successful call returned a group that has no member left and a
\* retained CPU time.
C11_Witness ==
    /\ Succeeded(call)
    /\ \E gname \in DOMAIN groupAccum :
         /\ Members(Tracked, gname) = {}
         /\ groupAccum[gname].Cpu > 0
         /\ call.groups[gname].Counts.Cpu > 0

\* C12: no step removes a group name from groupAccum, and a successful call
\* of Grouper.Update returns exactly the groups groupAccum then holds, so
\* every group returned once is returned by every later successful call.
C12_GroupsAreNeverDeleted ==
    [][ /\ DOMAIN groupAccum \subseteq DOMAIN groupAccum'
        /\ Succeeded(call')
           => /\ DOMAIN call'.groups = DOMAIN groupAccum'
              /\ DOMAIN groupAccum \subseteq DOMAIN call'.groups ]_vars

\* A successful call returned two groups when no process is tracked any more.
C12_Witness ==
    /\ Succeeded(call)
    /\ Reported(Tracked) = {}
    /\ DOMAIN call.groups = {"g1", "g2"}

\* The observations of a scan whose metrics were read for a process the
\* tracker held, not blacklisted, before the call.
Continuing(T, procs) ==
    { i \in 1 .. Len(procs) :
        /\ procs[i].fail \in {"none", "static"}
        /\ procs[i].ProcId \in Reported(T) }

\* C13: when Update reads, for a tracked process, a counter that is
\* unavailable now or was unavailable in the last recorded reading, it adds
\* nothing to that counter's accumulator, and it does not record an
\* unavailable reading over an available one.
C13_UnavailableAddsZero ==
    [][ call'.op = "Update"
        => \A i \in Continuing(Tracked, call'.procs) :
             LET id == call'.procs[i].ProcId
                 cur == call'.procs[i].ProcMetrics
                 last == Tracked[id].info.ProcMetrics
             IN /\ (cur.ReadBytes = Sentinel \/ last.ReadBytes = Sentinel)
                   => Tracked'[id].accum.ReadBytes = Tracked[id].accum.ReadBytes
                /\ (cur.WriteBytes = Sentinel \/ last.WriteBytes = Sentinel)
                   => Tracked'[id].accum.WriteBytes = Tracked[id].accum.WriteBytes
                /\ (cur.ReadBytes = Sentinel /\ last.ReadBytes # Sentinel)
                   => Tracked'[id].info.ProcMetrics.ReadBytes = last.ReadBytes
                /\ (cur.WriteBytes = Sentinel /\ last.WriteBytes # Sentinel)
                   => Tracked'[id].info.ProcMetrics.WriteBytes = last.WriteBytes ]_vars

\* C14: no call of Update lowers a counter of the accumulator of a process
\* that is tracked before and after it.
C14_AccumNeverDecreases ==
    [][ call'.op = "Update"
        => \A id \in Reported(Tracked) \cap Reported(Tracked') :
             CountsLeq(Tracked[id].accum, Tracked'[id].accum) ]_vars

\* C15: a blacklisted identity that the scan of a call of Update does not
\* hold, on a pid no observation of the scan has, is still blacklisted when
\* the call, whose iterator closes, has completed normally.
C15_SweepKeepsTombstones ==
    [][ (call'.op = "Update" /\ ~call'.closeErr)
        => \A id \in DOMAIN Tracked :
             (/\ Tracked[id] = Nil
              /\ \A other \in ScannedIds(call'.procs) : other.Pid # id.Pid)
             => /\ ~call'.panic
                /\ id \in DOMAIN Tracked'
                /\ Tracked'[id] = Nil ]_vars

\* C16: Track of an identity the tracker does not hold makes an entry with
\* the zero accumulator, the observation's static and metric data and the
\* group name; Track of a blacklisted identity leaves it blacklisted.
C16_TrackSeedsOrKeepsTombstone ==
    [][ call'.op = "Track"
        => LET id == call'.id
           IN /\ id \notin DOMAIN Tracked
                 => /\ Tracked'[id].accum = ZeroCounts
                    /\ Tracked'[id].info.ProcStatic = StaticOf(id)
                    /\ Tracked'[id].info.ProcMetrics = hist'[id]
                    /\ Tracked'[id].GroupName \in TrackNames
              /\ (id \in DOMAIN Tracked /\ Tracked[id] = Nil)
                 => Tracked'[id] = Nil ]_vars

\* The observations of a scan read in full whose identity the tracker T
\* does not hold, tracked or blacklisted.
Untracked(T, procs) ==
    { procs[i].ProcId : i \in { j \in 1 .. Len(procs) :
                                  /\ procs[j].fail = "none"
                                  /\ procs[j].ProcId \notin DOMAIN T } }

\* C17: Update adds no entry to the tracked set: an identity it discovers
\* is not in the tracked set after the call, and every call that returns its
\* list, in whatever cycle, reports as new each identity read in full that
\* the tracker does not hold.
C17_DiscoveryDoesNotTrack ==
    [][ call'.op = "Update"
        => /\ DOMAIN Tracked' \subseteq DOMAIN Tracked
           /\ \A id \in Untracked(Tracked, call'.procs) :
                /\ id \notin DOMAIN Tracked'
                /\ (~call'.closeErr /\ ~call'.panic) => id \in NewIds(call') ]_vars

\* The last cycle has reported two processes as new and the tracker, which
\* the caller told nothing, still holds no entry.
C17_Witness ==
    /\ call.op = "Update" /\ ~call.panic /\ ~call.closeErr
    /\ clock = MaxCycles
    /\ Tracked = EmptyMap
    /\ Cardinality(NewIds(call)) = 2
    /\ \A id \in NewIds(call) : id.StartTime = id.Pid

\* The sum of f over the set S.
RECURSIVE SetSum(_, _)
SetSum(f, S) ==
    IF S = {} THEN 0
    ELSE LET x == CHOOSE y \in S : TRUE
         IN f[x] + SetSum(f, S \ {x})

\* The latest recorded snapshot of a tracked process.
Snapshot(T, id) == T[id].info.ProcMetrics

\* C18: in the groups a successful Grouper.Update returns, a group with
\* members has their number as its process count, the sums of their resident
\* bytes, virtual bytes and thread counts, the least of their start times as
\* its oldest start time, and as open descriptors the sum of their counts
\* with an unreadable count (-1) adding nothing.
C18_GroupSnapshotIsFold ==
    [][ Succeeded(call')
        => \A gname \in DOMAIN call'.groups :
             LET M == Members(Tracked', gname)
                 grp == call'.groups[gname]
             IN M # {}
                => /\ grp.Procs = Cardinality(M)
                   /\ grp.Memory.ResidentBytes
                        = SetSum([id \in M |-> Snapshot(Tracked', id).ResidentBytes], M)
                   /\ grp.Memory.VirtualBytes
                        = SetSum([id \in M |-> Snapshot(Tracked', id).VirtualBytes], M)
                   /\ grp.NumThreads
                        = SetSum([id \in M |-> Snapshot(Tracked', id).NumThreads], M)
                   /\ \E id \in M : grp.OldestStartTime = id.StartTime
                   /\ \A id \in M : grp.OldestStartTime <= id.StartTime
                   /\ grp.OpenFDs
                        = SetSum([id \in M |->
                                    IF Snapshot(Tracked', id).Filedesc.Open = -1 THEN 0
                                    ELSE Snapshot(Tracked', id).Filedesc.Open], M) ]_vars

\* A group returned with two members of different start times, one of them
\* with an unreadable descriptor count.
C18_Witness ==
    /\ Succeeded(call)
    /\ \E gname \in DOMAIN call.groups :
         /\ \E a, b \in Members(Tracked, gname) :
              /\ a.StartTime < b.StartTime
              /\ Snapshot(Tracked, b).Filedesc.Open = -1
              /\ Snapshot(Tracked, a).Filedesc.Open # -1
         /\ call.groups[gname].Procs = 2
         /\ call.groups[gname].OpenFDs > 0

\* C19: a tracked process that is in the scan but whose metrics cannot be
\* read is, when Update returns, still tracked with the accumulator and the
\* last recorded reading it had.
C19_MetricFailureOnlySkips ==
    [][ (call'.op = "Update" /\ ~call'.panic)
        => \A i \in 1 .. Len(call'.procs) :
             LET id == call'.procs[i].ProcId
             IN (call'.procs[i].fail = "metrics" /\ id \in Reported(Tracked))
                => /\ id \in Reported(Tracked')
                   /\ Tracked'[id].accum = Tracked[id].accum
                   /\ Tracked'[id].info = Tracked[id].info ]_vars

\* Every tracked, not blacklisted identity is the one the pid index holds
\* for its pid; hence there is at most one per pid.
PidIndexConsistent(T, P) ==
    /\ \A id \in Reported(T) : id.Pid \in DOMAIN P /\ P[id.Pid] = id
    /\ \A a, b \in Reported(T) : a.Pid = b.Pid => a = b

\* C20: when Track and Ignore are applied only to identities the latest
\* Update returned as new, the pid index maps the pid of every tracked
\* identity to that identity, at most one identity is tracked per pid, and
\* when Update has discovered an identity the pid index holds it: the sweep
\* of the same call has not deleted its entry.
C20_PidIndexConsistency ==
    [][ /\ PidIndexConsistent(Tracked', ProcIds')
        /\ clock' # clock
           => \A id \in Untracked(Tracked, call'.procs) :
                id.Pid \in DOMAIN ProcIds' /\ ProcIds'[id.Pid] = id ]_vars

\* An Update has returned a new identity on a reused pid while a process
\* tracked on the other pid was updated in the same call.
C20_Witness ==
    /\ call.op = "Update" /\ ~call.panic /\ ~call.closeErr
    /\ \E id \in NewIds(call), other \in Reported(Tracked) :
         /\ id.StartTime = 2
         /\ ProcIds[id.Pid] = id
         /\ other.Pid # id.Pid
         /\ Tracked[other].lastUpdate = clock
         /\ Tracked[other].accum.Cpu > 0

====
